---- MODULE Spec2Model ----
(***************************************************************************)
(* presenterm: the document compiler (src/parse.rs, SlideParser) and the   *)
(* slide renderer (src/draw.rs, Drawer), modelled as one pipeline:         *)
(* a document tree is compiled child by child into slides, and the         *)
(* resulting slide list is drawn, one sink operation at a time.            *)
(***************************************************************************)
EXTENDS Naturals, Sequences, FiniteSets, TLC

\* The model's only bound: the number of nodes (blocks and inlines) of a document.
MaxDocSize == 4

\* cursor::MoveDown(2)
RowAdvance == 2

(***************************************************************************)
(* The document tree (comrak's AstNode / NodeValue).                       *)
(***************************************************************************)
Contents == {"a", "b"}
HeadingLevels == {1, 2}
UnsupportedInlines == {"Code", "Link"}
UnsupportedBlocks == {"CodeBlock", "List"}

TextNode(t) == [kind |-> "Text", text |-> t, children |-> <<>>]
InlineNode(k, cs) == [kind |-> k, text |-> "", children |-> cs]
BlockNode(k, l, cs) == [kind |-> k, level |-> l, children |-> cs]

InlineLeaves == {TextNode(t) : t \in Contents} \cup {InlineNode(k, <<>>) : k \in UnsupportedInlines}

RECURSIVE InlineTrees(_), InlineForests(_)
\* inline trees with exactly n nodes
InlineTrees(n) ==
    IF n = 1 THEN InlineLeaves
    ELSE {InlineNode(k, f) : k \in {"Strong", "Emph"}, f \in InlineForests(n - 1)}

\* sequences of inline trees with exactly n nodes in total
InlineForests(n) ==
    IF n = 0 THEN {<<>>}
    ELSE UNION {{<<t>> \o f : t \in InlineTrees(k), f \in InlineForests(n - k)} : k \in 1..n}

\* top-level blocks with exactly n nodes
Blocks(n) ==
    IF n = 1
    THEN {BlockNode("ThematicBreak", 0, <<>>)}
         \cup {BlockNode(k, 0, <<>>) : k \in UnsupportedBlocks}
         \cup {BlockNode("Heading", l, <<>>) : l \in HeadingLevels}
    ELSE {BlockNode("Heading", l, f) : l \in HeadingLevels, f \in InlineForests(n - 1)}
         \cup {BlockNode("Paragraph", 0, f) : f \in InlineForests(n - 1)}

RECURSIVE DocsOfSize(_)
DocsOfSize(n) ==
    IF n = 0 THEN {<<>>}
    ELSE UNION {{<<b>> \o d : b \in Blocks(k), d \in DocsOfSize(n - k)} : k \in 1..n}

Documents == UNION {DocsOfSize(n) : n \in 0..MaxDocSize}

(***************************************************************************)
(* The data model (elements, slide).                                       *)
(***************************************************************************)
TextFormat_default == {}
add_bold(format) == format \cup {"Bold"}
add_italics(format) == format \cup {"Italic"}
has_bold(format) == "Bold" \in format
has_italics(format) == "Italic" \in format

TextChunk_formatted(text, format) == [text |-> text, format |-> format]
Text_new(chunks) == [chunks |-> chunks]
Element_Heading(text, level) == [kind |-> "Heading", text |-> text, level |-> level]
Element_Paragraph(text) == [kind |-> "Paragraph", text |-> text]
Slide_new(elements) == [elements |-> elements]

Ok(v) == [tag |-> "Ok", val |-> v]
Err(e) == [tag |-> "Err", err |-> e]

UnsupportedElement(name) == [error |-> "UnsupportedElement", element |-> name]
UnsupportedStructure(container, name) ==
    [error |-> "UnsupportedStructure", container |-> container, element |-> name]

(***************************************************************************)
(* src/parse.rs                                                            *)
(***************************************************************************)
identifier(kind) ==
    CASE kind = "CodeBlock" -> "code block"
      [] kind = "List" -> "list"
      [] kind = "Paragraph" -> "paragraph"
      [] kind = "Heading" -> "heading"
      [] kind = "ThematicBreak" -> "thematic break"
      [] kind = "Text" -> "text"
      [] kind = "Code" -> "code"
      [] kind = "Emph" -> "emph"
      [] kind = "Strong" -> "strong"
      [] kind = "Link" -> "link"

\* a mutant: the enclosing format is dropped when a marker is entered
child_format_fresh(kind, format) ==
    IF kind = "Strong" THEN add_bold(TextFormat_default) ELSE add_italics(TextFormat_default)

\* the format a Strong / Emph node hands to its children
child_format(kind, format) ==
    IF kind = "Strong" THEN add_bold(format) ELSE add_italics(format)

RECURSIVE parse_text_chunks(_, _), text_chunks_from(_, _, _, _)
\* the loop of parse_text_chunks from child i on, with the chunks pushed so far
text_chunks_from(root, format, i, chunks) ==
    IF i > Len(root.children) THEN Ok(chunks)
    ELSE LET node == root.children[i] IN
         CASE node.kind = "Text" ->
                text_chunks_from(root, format, i + 1,
                                 Append(chunks, TextChunk_formatted(node.text, format)))
           [] node.kind \in {"Strong", "Emph"} ->
                LET r == parse_text_chunks(node, child_format(node.kind, format)) IN
                IF r.tag = "Err" THEN r
                ELSE text_chunks_from(root, format, i + 1, chunks \o r.val)
           [] OTHER -> Err(UnsupportedStructure("text", identifier(node.kind)))

parse_text_chunks(root, format) == text_chunks_from(root, format, 1, <<>>)

parse_text(root) ==
    LET r == parse_text_chunks(root, TextFormat_default) IN
    IF r.tag = "Err" THEN r ELSE Ok(Text_new(r.val))

parse_heading(node) ==
    LET r == parse_text(node) IN
    IF r.tag = "Err" THEN r ELSE Ok(Element_Heading(r.val, node.level))

parse_paragraph(node) ==
    LET r == parse_text(node) IN
    IF r.tag = "Err" THEN r ELSE Ok(Element_Paragraph(r.val))

\* a mutant: the catch-all arm falls back to a paragraph
parse_element_lenient(node) ==
    CASE node.kind = "Heading" -> parse_heading(node)
      [] OTHER -> parse_paragraph(node)

parse_element(node) ==
    CASE node.kind = "Heading" -> parse_heading(node)
      [] node.kind = "Paragraph" -> parse_paragraph(node)
      [] OTHER -> Err(UnsupportedElement(identifier(node.kind)))

(***************************************************************************)
(* State.                                                                  *)
(***************************************************************************)
VARIABLES
    document,        \* root.children(): the top-level blocks, in document order
    ppc,             \* SlideParser::parse: "loop", then "returned"
    child,           \* index of the next top-level child the loop visits
    slides,          \* parse's local `slides`
    slide_elements,  \* parse's local `slide_elements`
    result,          \* what parse returned: Ok(slides) or Err(error); tag "None" before
    dpc,             \* Drawer::draw: the next step, or "ok" / "err" / "panic"
    element,         \* index of the element draw_slide is at
    chunk,           \* index of the chunk draw_text is at
    ops,             \* every operation issued on the sink, in order
    attrs,           \* the attributes in effect on the terminal
    dresult          \* what draw returned: "Ok", "IoError", "none" (not returned)

pvars == <<document, ppc, child, slides, slide_elements, result>>
dvars == <<dpc, element, chunk, ops, attrs, dresult>>
vars == <<document, ppc, child, slides, slide_elements, result,
          dpc, element, chunk, ops, attrs, dresult>>

Init ==
    /\ document \in Documents
    /\ ppc = "loop"
    /\ child = 1
    /\ slides = <<>>
    /\ slide_elements = <<>>
    /\ result = [tag |-> "None"]
    /\ dpc = "idle"
    /\ element = 0
    /\ chunk = 0
    /\ ops = <<>>
    /\ attrs = {}
    /\ dresult = "none"

(***************************************************************************)
(* SlideParser::parse, one loop iteration per action.                      *)
(***************************************************************************)
\* a mutant: the accumulator is cloned into the slide, not taken
ParseBreak_keep ==
    /\ ppc = "loop"
    /\ child <= Len(document)
    /\ document[child].kind = "ThematicBreak"
    /\ slides' = Append(slides, Slide_new(slide_elements))
    /\ child' = child + 1
    /\ UNCHANGED <<document, ppc, slide_elements, result>>
    /\ UNCHANGED dvars

\* a mutant: a break flushes only a non-empty accumulator
ParseBreak_nonempty ==
    /\ ppc = "loop"
    /\ child <= Len(document)
    /\ document[child].kind = "ThematicBreak"
    /\ slides' = IF slide_elements # <<>> THEN Append(slides, Slide_new(slide_elements))
                  ELSE slides
    /\ slide_elements' = <<>>
    /\ child' = child + 1
    /\ UNCHANGED <<document, ppc, result>>
    /\ UNCHANGED dvars

\* NodeValue::ThematicBreak: flush the accumulator into a slide
ParseBreak ==
    /\ ppc = "loop"
    /\ child <= Len(document)
    /\ document[child].kind = "ThematicBreak"
    /\ slides' = Append(slides, Slide_new(slide_elements))
    /\ slide_elements' = <<>>
    /\ child' = child + 1
    /\ UNCHANGED <<document, ppc, result>>
    /\ UNCHANGED dvars

\* any other block: parse_element, `?` returns its error from parse
ParseBlock ==
    /\ ppc = "loop"
    /\ child <= Len(document)
    /\ document[child].kind # "ThematicBreak"
    /\ LET r == parse_element(document[child]) IN
       IF r.tag = "Ok"
       THEN /\ slide_elements' = Append(slide_elements, r.val)
            /\ child' = child + 1
            /\ UNCHANGED <<ppc, slides, result>>
       ELSE /\ result' = Err(r.err)
            /\ ppc' = "returned"
            /\ slides' = <<>>
            /\ slide_elements' = <<>>
            /\ UNCHANGED child
    /\ UNCHANGED document
    /\ UNCHANGED dvars

\* a mutant: the final flush is unconditional
ParseFinish_always ==
    /\ ppc = "loop"
    /\ child > Len(document)
    /\ result' = Ok(Append(slides, Slide_new(slide_elements)))
    /\ ppc' = "returned"
    /\ slides' = <<>>
    /\ slide_elements' = <<>>
    /\ UNCHANGED <<document, child>>
    /\ UNCHANGED dvars

\* after the loop: flush a non-empty accumulator, return Ok(slides)
ParseFinish ==
    /\ ppc = "loop"
    /\ child > Len(document)
    /\ result' = Ok(IF slide_elements # <<>>
                     THEN Append(slides, Slide_new(slide_elements))
                     ELSE slides)
    /\ ppc' = "returned"
    /\ slides' = <<>>
    /\ slide_elements' = <<>>
    /\ UNCHANGED <<document, child>>
    /\ UNCHANGED dvars

(***************************************************************************)
(* The sink: crossterm commands queued on stdout, and what they do to the  *)
(* terminal's attributes.                                                  *)
(***************************************************************************)
Command(name, x, y, content, attributes) ==
    [cmd |-> name, x |-> x, y |-> y, content |-> content, attributes |-> attributes]

Clear_All == Command("Clear", 0, 0, "", {})
MoveTo(x, y) == Command("MoveTo", x, y, "", {})
MoveToColumn(x) == Command("MoveToColumn", x, 0, "", {})
MoveDown(n) == Command("MoveDown", 0, n, "", {})
SetAttribute(a) == Command("SetAttribute", 0, 0, "", {a})
PrintStyledContent(styled) == Command("PrintStyledContent", 0, 0, styled.content, styled.attributes)
Flush == Command("Flush", 0, 0, "", {})

\* chunk.text.clone().stylize(), then .bold() / .italic() as the format says
styled_chunk(c) ==
    [content |-> c.text,
     attributes |-> (IF has_bold(c.format) THEN {"Bold"} ELSE {})
                    \cup (IF has_italics(c.format) THEN {"Italic"} ELSE {})]

\* the attributes a command's text is rendered with, given those in effect
term_shown(c, a) == IF c.cmd = "PrintStyledContent" THEN a \cup c.attributes ELSE {}

\* the attributes in effect after a command: SetAttribute adds one or resets all;
\* PrintStyledContent with a non-empty style sets it, writes, then resets all
term_after(c, a) ==
    CASE c.cmd = "SetAttribute" -> IF "Reset" \in c.attributes THEN {} ELSE a \cup c.attributes
      [] c.cmd = "PrintStyledContent" -> IF c.attributes # {} THEN {} ELSE a
      [] OTHER -> a

\* one entry of the sink's log: the command, whether it succeeded, where draw was
Issued(c, ok) ==
    [cmd |-> c.cmd, x |-> c.x, y |-> c.y, content |-> c.content, attributes |-> c.attributes,
     ok |-> ok, element |-> element, chunk |-> chunk, shown |-> term_shown(c, attrs)]

(***************************************************************************)
(* src/draw.rs                                                             *)
(***************************************************************************)
\* a mutant: the error of a sink operation is dropped and drawing goes on
Queue_ignore(c, next) ==
    \E ok \in BOOLEAN :
        /\ ops' = Append(ops, Issued(c, ok))
        /\ dpc' = next
        /\ attrs' = IF ok THEN term_after(c, attrs) ELSE attrs
        /\ dresult' = IF next = "ok" THEN "Ok" ELSE dresult

\* self.handle.queue(c)? / self.handle.flush()?: the operation is issued; if it
\* fails, draw returns the error
Queue(c, next) ==
    \E ok \in BOOLEAN :
        /\ ops' = Append(ops, Issued(c, ok))
        /\ IF ok
           THEN /\ dpc' = next
                /\ attrs' = term_after(c, attrs)
                /\ dresult' = IF next = "ok" THEN "Ok" ELSE dresult
           ELSE /\ dpc' = "err"
                /\ attrs' = attrs
                /\ dresult' = "IoError"

\* a mutant: the last slide is drawn
drawn_slide_last == result.val[Len(result.val)]

\* &slides[0]
drawn_slide == result.val[1]

\* a mutant: the loop stops one element early
slide_next_early(e) == IF e >= Len(drawn_slide.elements) THEN "flush" ELSE "column"

\* draw_slide's loop: the next element, or the flush after the last one
slide_next(e) == IF e > Len(drawn_slide.elements) THEN "flush" ELSE "column"

\* draw_text's loop: the next chunk, or the move down after the last one
text_next(e, c) == IF c > Len(drawn_slide.elements[e].text.chunks) THEN "down" ELSE "text"

DrawClear ==
    /\ ppc = "returned"
    /\ result.tag = "Ok"
    /\ dpc = "idle"
    /\ Queue(Clear_All, "moveto")
    /\ UNCHANGED <<element, chunk>>
    /\ UNCHANGED pvars

DrawMoveTo ==
    /\ dpc = "moveto"
    /\ Queue(MoveTo(0, 0), "index")
    /\ UNCHANGED <<element, chunk>>
    /\ UNCHANGED pvars

\* &slides[0] panics on an empty list; otherwise draw_slide starts
DrawIndex ==
    /\ dpc = "index"
    /\ IF Len(result.val) = 0
       THEN /\ dpc' = "panic"
            /\ UNCHANGED element
       ELSE /\ dpc' = slide_next(1)
            /\ element' = 1
    /\ UNCHANGED <<chunk, ops, attrs, dresult>>
    /\ UNCHANGED pvars

DrawElementColumn ==
    /\ dpc = "column"
    /\ Queue(MoveToColumn(0),
             IF drawn_slide.elements[element].kind = "Heading" THEN "bold"
             ELSE text_next(element, 1))
    /\ chunk' = 1
    /\ UNCHANGED element
    /\ UNCHANGED pvars

DrawHeadingBold ==
    /\ dpc = "bold"
    /\ Queue(SetAttribute("Bold"), text_next(element, 1))
    /\ UNCHANGED <<element, chunk>>
    /\ UNCHANGED pvars

DrawChunk ==
    /\ dpc = "text"
    /\ Queue(PrintStyledContent(styled_chunk(drawn_slide.elements[element].text.chunks[chunk])),
             text_next(element, chunk + 1))
    /\ chunk' = chunk + 1
    /\ UNCHANGED element
    /\ UNCHANGED pvars

\* a mutant: the heading's attribute reset is left out
DrawMoveDown_noreset ==
    /\ dpc = "down"
    /\ Queue(MoveDown(RowAdvance), slide_next(element + 1))
    /\ element' = element + 1
    /\ UNCHANGED chunk
    /\ UNCHANGED pvars

DrawMoveDown ==
    /\ dpc = "down"
    /\ IF drawn_slide.elements[element].kind = "Heading"
       THEN /\ Queue(MoveDown(RowAdvance), "reset")
            /\ UNCHANGED element
       ELSE /\ Queue(MoveDown(RowAdvance), slide_next(element + 1))
            /\ element' = element + 1
    /\ UNCHANGED chunk
    /\ UNCHANGED pvars

DrawHeadingReset ==
    /\ dpc = "reset"
    /\ Queue(SetAttribute("Reset"), slide_next(element + 1))
    /\ element' = element + 1
    /\ UNCHANGED chunk
    /\ UNCHANGED pvars

DrawFlush ==
    /\ dpc = "flush"
    /\ Queue(Flush, "ok")
    /\ UNCHANGED <<element, chunk>>
    /\ UNCHANGED pvars

Next ==
    \/ ParseBreak
    \/ ParseBlock
    \/ ParseFinish
    \/ DrawClear
    \/ DrawMoveTo
    \/ DrawIndex
    \/ DrawElementColumn
    \/ DrawHeadingBold
    \/ DrawChunk
    \/ DrawMoveDown
    \/ DrawHeadingReset
    \/ DrawFlush

Spec == Init /\ [][Next]_vars

(***************************************************************************)
(* Vocabulary of the properties.                                           *)
(***************************************************************************)
IsBreak(b) == b.kind = "ThematicBreak"
IsContent(b) == b.kind # "ThematicBreak"
Compiled == result.tag = "Ok"
Last(s) == s[Len(s)]
IsPrefix(s, t) == Len(s) <= Len(t) /\ \A i \in 1..Len(s) : s[i] = t[i]

RECURSIVE Flatten(_)
\* the elements of a slide list, slide after slide
Flatten(ss) == IF ss = <<>> THEN <<>> ELSE Head(ss).elements \o Flatten(Tail(ss))

\* the document positions of the non-break blocks, in order
ContentPositions == {i \in 1..Len(document) : IsContent(document[i])}
BreaksBefore(i) == Cardinality({j \in 1..(i - 1) : IsBreak(document[j])})
ContentBefore(i) == Cardinality({j \in 1..(i - 1) : IsContent(document[j])})
\* the content blocks since the last break before position i
ContentSinceBreak(i) ==
    Cardinality({j \in 1..(i - 1) : /\ IsContent(document[j])
                                    /\ \A m \in j..i : IsContent(document[m])})

\* C1: when compile succeeds, the slides' elements, concatenated, are exactly the
\* elements of the non-break blocks in document order (none lost, duplicated or
\* reordered, no break turned into an element), and a block's element sits in the
\* slide numbered by the breaks before it, right after the elements of the blocks
\* that follow the same break: two elements share a slide iff no break separates them.
C1_ElementsInOrder ==
    Compiled =>
        /\ Flatten(result.val) = [k \in 1..Cardinality(ContentPositions) |->
               parse_element(document[CHOOSE i \in ContentPositions : ContentBefore(i) = k - 1]).val]
        /\ \A i \in ContentPositions :
               /\ BreaksBefore(i) + 1 \in 1..Len(result.val)
               /\ ContentSinceBreak(i) + 1 \in 1..Len(result.val[BreaksBefore(i) + 1].elements)
               /\ result.val[BreaksBefore(i) + 1].elements[ContentSinceBreak(i) + 1]
                      = parse_element(document[i]).val
        /\ (document # <<>> /\ \A i \in 1..Len(document) : IsContent(document[i]))
               => /\ Len(result.val) = 1
                  /\ Len(result.val[1].elements) = Len(document)

C1_Witness ==
    /\ Compiled
    /\ Len(result.val) >= 2
    /\ \E k \in 1..Len(result.val) : Len(result.val[k].elements) >= 2

\* C2: when compile succeeds, the number of slides is the number of top-level
\* breaks, plus one exactly when the document's last block exists and is no break;
\* every break yields a slide, empty if nothing precedes it since the last break.
C2_SlideCount ==
    Compiled =>
        /\ Len(result.val) = Cardinality({i \in 1..Len(document) : IsBreak(document[i])})
                             + (IF document # <<>> /\ IsContent(Last(document)) THEN 1 ELSE 0)
        /\ \A i \in 1..Len(document) :
               (IsBreak(document[i]) /\ (i = 1 \/ IsBreak(document[i - 1])))
                   => result.val[BreaksBefore(i) + 1].elements = <<>>

C2_Witness ==
    /\ Compiled
    /\ Len(document) >= 4
    /\ IsBreak(document[1])
    /\ IsBreak(document[2])
    /\ IsBreak(Last(document))
    /\ Len(result.val) = 3

RECURSIVE OnlyStyled(_), TextLeaves(_, _)
\* an inline forest of text, strong and emphasis nodes only
OnlyStyled(nodes) ==
    \A i \in 1..Len(nodes) :
        /\ nodes[i].kind \in {"Text", "Strong", "Emph"}
        /\ OnlyStyled(nodes[i].children)

\* the text nodes of an inline forest in reading order, each with the kinds of the
\* nodes that enclose it
TextLeaves(nodes, enclosing) ==
    IF nodes = <<>> THEN <<>>
    ELSE LET n == Head(nodes) IN
         (IF n.kind = "Text" THEN <<[text |-> n.text, enclosing |-> enclosing]>>
          ELSE TextLeaves(n.children, enclosing \cup {n.kind}))
         \o TextLeaves(Tail(nodes), enclosing)

\* C3: for a heading or paragraph of text, strong and emphasis nodes only, the
\* compiled text has one chunk per text node, in reading order; a chunk is Bold iff
\* a strong node encloses its text node and Italic iff an emphasis node does.
C3_ChunkFormats ==
    \A i \in 1..Len(document) :
        (document[i].kind \in {"Heading", "Paragraph"} /\ OnlyStyled(document[i].children)) =>
            LET r == parse_element(document[i])
                leaves == TextLeaves(document[i].children, {})
            IN /\ r.tag = "Ok"
               /\ Len(r.val.text.chunks) = Len(leaves)
               /\ \A k \in 1..Len(leaves) :
                      /\ r.val.text.chunks[k].text = leaves[k].text
                      /\ has_bold(r.val.text.chunks[k].format) <=> "Strong" \in leaves[k].enclosing
                      /\ has_italics(r.val.text.chunks[k].format) <=> "Emph" \in leaves[k].enclosing

C3_Witness ==
    /\ Compiled
    /\ \E k \in 1..Len(result.val) : \E e \in 1..Len(result.val[k].elements) :
           LET chunks == result.val[k].elements[e].text.chunks IN
           \E c \in 1..Len(chunks) :
               has_bold(chunks[c].format) /\ has_italics(chunks[c].format)

RECURSIVE InlinePreorder(_), BlockPreorder(_)
\* the nodes of the tree in depth-first order, each with its level
InlinePreorder(nodes) ==
    IF nodes = <<>> THEN <<>>
    ELSE <<[level |-> "inline", kind |-> Head(nodes).kind]>>
         \o InlinePreorder(Head(nodes).children) \o InlinePreorder(Tail(nodes))

BlockPreorder(blocks) ==
    IF blocks = <<>> THEN <<>>
    ELSE <<[level |-> "block", kind |-> Head(blocks).kind]>>
         \o InlinePreorder(Head(blocks).children) \o BlockPreorder(Tail(blocks))

Unsupported(n) ==
    IF n.level = "block" THEN n.kind \notin {"ThematicBreak", "Heading", "Paragraph"}
    ELSE n.kind \notin {"Text", "Strong", "Emph"}

UnsupportedNodes == SelectSeq(BlockPreorder(document), Unsupported)

\* C4: a document with an unsupported node compiles to an error and no slide list:
\* the error of its first unsupported node in depth-first order.
C4_FirstUnsupported ==
    (ppc = "returned" /\ UnsupportedNodes # <<>>) =>
        LET n == Head(UnsupportedNodes) IN
        /\ result.tag = "Err"
        /\ DOMAIN result = {"tag", "err"}
        /\ result.err = IF n.level = "block"
                        THEN UnsupportedElement(identifier(n.kind))
                        ELSE UnsupportedStructure("text", identifier(n.kind))

C4_Witness ==
    /\ ppc = "returned"
    /\ result.tag = "Err"
    /\ Len(UnsupportedNodes) >= 2
    /\ UnsupportedNodes[1].kind # UnsupportedNodes[2].kind
    /\ IsBreak(document[1])

\* a logged operation without the log's bookkeeping: the command itself
Plain(op) == Command(op.cmd, op.x, op.y, op.content, op.attributes)
Drawing == dpc \notin {"idle", "moveto", "index", "panic"} /\ Len(result.val) >= 1
DrawnElements == drawn_slide.elements
\* the text written successfully while element e was drawn
Written(e) == {i \in 1..Len(ops) : /\ ops[i].cmd = "PrintStyledContent"
                                   /\ ops[i].ok
                                   /\ ops[i].element = e}

\* C5: every chunk of a heading is written with bold in effect on the terminal,
\* whatever its own format and whatever chunks were written before it, and the
\* attributes are reset only after the heading's move down by two rows.
C5_HeadingBold ==
    Drawing =>
        /\ \A e \in 1..Len(DrawnElements) :
               DrawnElements[e].kind = "Heading" =>
                   \A i \in Written(e) : "Bold" \in ops[i].shown
        /\ \A i \in 1..Len(ops) :
               (Plain(ops[i]) = SetAttribute("Reset"))
                   => (i > 1 /\ Plain(ops[i - 1]) = MoveDown(RowAdvance))

\* C6: every chunk of a paragraph is written with exactly the attributes of its own
\* format: nothing set for an earlier chunk or by an earlier heading is in effect.
C6_ParagraphChunkLocal ==
    Drawing =>
        \A e \in 1..Len(DrawnElements) :
            DrawnElements[e].kind = "Paragraph" =>
                \A i \in Written(e) :
                    LET c == DrawnElements[e].text.chunks[ops[i].chunk] IN
                    /\ ops[i].content = c.text
                    /\ "Bold" \in ops[i].shown <=> has_bold(c.format)
                    /\ "Italic" \in ops[i].shown <=> has_italics(c.format)
                    /\ ops[i].shown \subseteq {"Bold", "Italic"}

\* a plain paragraph chunk written after a heading of the same slide
C6_Witness ==
    /\ Drawing
    /\ \E e \in 2..Len(DrawnElements) :
           /\ DrawnElements[e - 1].kind = "Heading"
           /\ Written(e - 1) # {}
           /\ DrawnElements[e].kind = "Paragraph"
           /\ \E i \in Written(e) : ops[i].shown = {}

\* the operations drawing one element issues, and drawing a slide
ElementTrace(e) ==
    <<MoveToColumn(0)>>
    \o (IF e.kind = "Heading" THEN <<SetAttribute("Bold")>> ELSE <<>>)
    \o [k \in 1..Len(e.text.chunks) |-> PrintStyledContent(styled_chunk(e.text.chunks[k]))]
    \o <<MoveDown(RowAdvance)>>
    \o (IF e.kind = "Heading" THEN <<SetAttribute("Reset")>> ELSE <<>>)

RECURSIVE ElementsTrace(_)
ElementsTrace(es) == IF es = <<>> THEN <<>> ELSE ElementTrace(Head(es)) \o ElementsTrace(Tail(es))

SlideTrace(slide) == <<Clear_All, MoveTo(0, 0)>> \o ElementsTrace(slide.elements) \o <<Flush>>

\* C7: the operations draw issues are a function of slides[0] alone: at every
\* moment they are a prefix of the first slide's own trace, and the whole of it
\* when draw returns Ok, whatever the other slides are and however many.
C7_OnlyFirstSlide ==
    (Compiled /\ Len(result.val) >= 1) =>
        /\ IsPrefix([i \in 1..Len(ops) |-> Plain(ops[i])], SlideTrace(result.val[1]))
        /\ dpc = "ok" => Len(ops) = Len(SlideTrace(result.val[1]))

\* a draw that returned Ok on a list whose second slide has text the first has not
C7_Witness ==
    /\ dpc = "ok"
    /\ Len(result.val) >= 2
    /\ \E e \in 1..Len(result.val[2].elements) :
           \E c \in 1..Len(result.val[2].elements[e].text.chunks) :
               \A i \in 1..Len(ops) :
                   ops[i].content # result.val[2].elements[e].text.chunks[c].text

\* C8: a failed sink operation is the last one issued, and draw returns its I/O
\* error; draw returns Ok only if every operation succeeded.
C8_AbortOnFailure ==
    /\ \A i \in 1..Len(ops) : ~ops[i].ok => (i = Len(ops) /\ dpc = "err")
    /\ dpc = "err" <=> (ops # <<>> /\ ~Last(ops).ok)
    /\ dpc = "err" <=> dresult = "IoError"
    /\ dresult = "Ok" <=> dpc = "ok"
    /\ dpc = "err" => \A i \in 1..(Len(ops) - 1) : ops[i].ok

\* a write that failed with chunks and the flush still to come
C8_Witness ==
    /\ dpc = "err"
    /\ Last(ops).cmd = "PrintStyledContent"
    /\ Len(ops) >= 5
    /\ chunk <= Len(DrawnElements[element].text.chunks)

\* the operations issued while element e was drawn
Segment(e) == SelectSeq([i \in 1..Len(ops) |-> [op |-> Plain(ops[i]), element |-> ops[i].element]],
                        LAMBDA o : o.element = e)

\* what C9 says of every element but the way its operations end
C9_Frame ==
    /\ Len(ops) >= 3
    /\ Plain(ops[1]) = Clear_All
    /\ Plain(ops[2]) = MoveTo(0, 0)
    /\ Plain(Last(ops)) = Flush
    /\ \A i \in 1..(Len(ops) - 1) : ops[i].cmd # "Flush"
    /\ \A i \in 3..(Len(ops) - 1) : ops[i].element \in 1..Len(DrawnElements)
    /\ \A i \in 3..(Len(ops) - 2) : ops[i].element <= ops[i + 1].element
    /\ \A e \in 1..Len(DrawnElements) :
           LET seg == Segment(e)
               prints == SelectSeq(seg, LAMBDA o : o.op.cmd = "PrintStyledContent")
               chunks == DrawnElements[e].text.chunks
           IN /\ Len(seg) >= 2
              /\ seg[1].op = MoveToColumn(0)
              /\ \A k \in 2..Len(seg) : seg[k].op.cmd # "MoveToColumn"
              /\ Len(prints) = Len(chunks)
              /\ \A k \in 1..Len(chunks) : prints[k].op.content = chunks[k].text

\* C9 as stated: every element's operations end with the move down by two rows.
C9_EndsWithMoveDown ==
    dpc = "ok" =>
        /\ C9_Frame
        /\ \A e \in 1..Len(DrawnElements) : Last(Segment(e)).op = MoveDown(RowAdvance)

\* C9, amended: a successful draw issues clear, move to the origin, then for each
\* element of slides[0] in order a move to column 0 and the element's operations, and
\* last one flush; a paragraph's operations end with the move down by two rows, a
\* heading's with that move followed by the attribute reset.
C9_OperationOrder ==
    dpc = "ok" =>
        /\ C9_Frame
        /\ \A e \in 1..Len(DrawnElements) :
               LET seg == Segment(e) IN
               IF DrawnElements[e].kind = "Heading"
               THEN /\ Len(seg) >= 4
                    /\ seg[2].op = SetAttribute("Bold")
                    /\ Last(seg).op = SetAttribute("Reset")
                    /\ seg[Len(seg) - 1].op = MoveDown(RowAdvance)
                    /\ \A k \in 3..(Len(seg) - 2) : seg[k].op.cmd = "PrintStyledContent"
               ELSE /\ Last(seg).op = MoveDown(RowAdvance)
                    /\ \A k \in 2..(Len(seg) - 1) : seg[k].op.cmd = "PrintStyledContent"

C9_Witness ==
    /\ dpc = "ok"
    /\ \E e \in 1..Len(DrawnElements) : DrawnElements[e].kind = "Heading"
    /\ \E e \in 1..Len(DrawnElements) : DrawnElements[e].kind = "Paragraph"

\* C10 as stated: draw on the empty list that compile returns for the empty
\* document returns neither Ok nor an I/O error.
C10_EmptyListFailsHard ==
    (Compiled /\ result.val = <<>>) => dresult = "none"

\* C10, amended: compile succeeding on a document with a top-level block returns a
\* non-empty list; it returns the empty list only for the empty document, and draw on
\* that list never returns Ok: it returns the I/O error of clear or of move to the
\* origin if one of them fails, and otherwise fails hard once both are queued.
C10_NonEmptyOrPanic ==
    /\ (Compiled /\ document # <<>>) => result.val # <<>>
    /\ (Compiled /\ result.val = <<>>) =>
           /\ document = <<>>
           /\ dpc \in {"idle", "moveto", "index", "panic", "err"}
           /\ dpc = "index" => (Len(ops) = 2 /\ ops[1].ok /\ ops[2].ok)
           /\ dpc = "err" => (dresult = "IoError" /\ Len(ops) <= 2 /\ ~Last(ops).ok)
    /\ dpc = "panic" =>
           /\ Compiled
           /\ result.val = <<>>
           /\ dresult = "none"
           /\ Len(ops) = 2
           /\ Plain(ops[1]) = Clear_All /\ ops[1].ok
           /\ Plain(ops[2]) = MoveTo(0, 0) /\ ops[2].ok

C10_Witness == dpc = "panic"

====
